---- MODULE Spec2Model ----
(***************************************************************************)
(* Vector3DTileContent (Source/Scene/Vector3DTileContent.js): the decoder  *)
(* of a "vctr" vector tile and the life cycle of the content it builds:    *)
(* construction (initialize), update(), the polygon set's readiness, the   *)
(* continuation update() registers on it, destroy(), getFeature() and      *)
(* applyStyle().  Beside it, DynamicObjectCollection (unnamed/part_000):    *)
(* its contents, its id index and its collectionChanged events.            *)
(***************************************************************************)
EXTENDS Integers, Sequences, FiniteSets, TLC

VARIABLES
    encoded,                \* what the tile's producer put in it: the counts and the optional arrays
    arrayBuffer,            \* the tile handed to the constructor
    phase,                  \* "new" | "constructed" | "threw": where the constructor is
    error,                  \* what the constructor threw: "none" | "DeveloperError" | "TypeError"
    headerReads,            \* the header fields initialize has read, in order
    sectionReads,           \* the sections initialize has located after the header, in order
    content,                \* the fields of the Vector3DTileContent object
    polygonsReadyPromise,   \* content._polygons.readyPromise: "none" | "pending" | "resolved"
    continuation,           \* the function update() hands to readyPromise.then: "none" | "registered" | "ran"
    updateCalled,           \* update() has returned at least once
    updated,                \* the owned objects the last update() forwarded the frame to
    destroyCalls,           \* how often destroy() was called on each owned object
    atDestroy,              \* the content as destroy() left it and the polygon set's readiness
                            \* then (undefined before destroy())
    lastCall,               \* the last method called on the content and what came of it
    collection,             \* the fields of the DynamicObjectCollection object
    dynamicObjects,         \* the DynamicObject instances that exist
    atSuspend,              \* the collection's array when suspendEvents took the suspend
                            \* count from 0 (undefined while the count is 0)
    lastCollectionCall      \* the last method called on the collection and what came of it

vars == <<encoded, arrayBuffer, phase, error, headerReads, sectionReads, content,
          polygonsReadyPromise, continuation, updateCalled, updated, destroyCalls,
          atDestroy, lastCall, collection, dynamicObjects, atSuspend, lastCollectionCall>>

tileVars == <<encoded, arrayBuffer>>
constructorVars == <<phase, error, headerReads, sectionReads>>
destroyVars == <<destroyCalls, atDestroy>>
collectionVars == <<collection, dynamicObjects, atSuspend, lastCollectionCall>>
contentVars == <<encoded, arrayBuffer, phase, error, headerReads, sectionReads, content,
                 polygonsReadyPromise, continuation, updateCalled, updated, destroyCalls,
                 atDestroy, lastCall>>

----------------------------------------------------------------------------
(* Bounds of the model.                                                    *)

\* the largest POLYGONS_LENGTH + POLYLINES_LENGTH + POINTS_LENGTH of a tile
MaxPrimitives == 3
\* explicit batch ids of a tile are drawn from 0..MaxBatchId
MaxBatchId == 1
\* the largest POINTS_LENGTH of the tiles whose point coordinates vary
MaxPoints == 2
\* the ids of the objects of a DynamicObjectCollection are drawn from 1..MaxIds
MaxIds == 2
\* the largest number of DynamicObject instances
MaxObjects == 3
\* the largest suspend count of a DynamicObjectCollection
MaxSuspend == 2

----------------------------------------------------------------------------
(* JavaScript values.                                                      *)

Undefined == [defined |-> FALSE]
Some(v) == [defined |-> TRUE, value |-> v]
defined(x) == x.defined
defaultValue(a, b) == IF defined(a) THEN a.value ELSE b

\* the number of values of a Uint16Array element
Uint16Range == 65536
\* a store into a Uint16Array keeps the low 16 bits
ToUint16(n) == n % Uint16Range

sizeOfUint16 == 2
sizeOfUint32 == 4

\* the view starts at the head of the buffer whatever the byteOffset
Uint16ArrayView_AtZero(buffer, byteOffset, length) == [i \in 1..length |-> buffer[i]]

\* new Uint16Array(buffer, byteOffset, length) over a buffer of 16-bit words
Uint16ArrayView(buffer, byteOffset, length) ==
    [i \in 1..length |-> buffer[(byteOffset \div sizeOfUint16) + i]]

\* the view is cut from the head of the array whatever begin is
subarray_FromStart(typedArray, begin, end) ==
    SubSeq(typedArray, 1, (IF end <= Len(typedArray) THEN end ELSE Len(typedArray)) - begin)

\* typedArray.subarray(begin, end)
subarray(typedArray, begin, end) ==
    SubSeq(typedArray, begin + 1, IF end <= Len(typedArray) THEN end ELSE Len(typedArray))

----------------------------------------------------------------------------
(* Zig-zag delta coding of Core/AttributeCompression: a coordinate is      *)
(* written as the zig-zag code of its difference from the one before it.   *)

\* (value >> 1) ^ (-(value & 1))
zigZagDecode(value) == IF value % 2 = 0 THEN value \div 2 ELSE -(value \div 2) - 1

RECURSIVE runningSum(_, _, _)
\* u += zigZagDecode(buffer[i]); buffer[i] = u, a store into a Uint16Array
runningSum(buffer, i, sum) ==
    IF i > Len(buffer) THEN << >>
    ELSE LET u == sum + zigZagDecode(buffer[i])
         IN  <<ToUint16(u)>> \o runningSum(buffer, i + 1, u)

\* AttributeCompression.zigZagDeltaDecode(uBuffer, vBuffer, heightBuffer)
zigZagDeltaDecode(uBuffer, vBuffer, heightBuffer) ==
    [ u |-> runningSum(uBuffer, 1, 0),
      v |-> runningSum(vBuffer, 1, 0),
      height |-> runningSum(heightBuffer, 1, 0) ]

\* a difference of two 16-bit values as a signed 16-bit value
ToInt16(n) == ((n + Uint16Range \div 2) % Uint16Range) - Uint16Range \div 2

\* the producer's side: (delta << 1) ^ (delta >> 15), delta a signed 16-bit value
zigZagEncode(delta) == IF delta >= 0 THEN 2 * delta ELSE -2 * delta - 1

\* the zig-zag codes of the successive differences, as Uint16 words
zigZagDeltaEncode(coordinates) ==
    [ i \in 1..Len(coordinates) |->
        ToUint16(zigZagEncode(
            ToInt16(coordinates[i] - (IF i = 1 THEN 0 ELSE coordinates[i - 1])))) ]

----------------------------------------------------------------------------
(* The tiles the constructor is given.  A tile is its header fields, its   *)
(* feature table JSON and its feature table binary (16-bit words; the      *)
(* batch-id and width arrays are the Uint16 arrays the JSON points into).  *)

\* the header fields in the order initialize reads them
HeaderFields ==
    << "magic", "version", "byteLength", "featureTableJSONByteLength",
       "featureTableBinaryByteLength", "batchTableJSONByteLength",
       "batchTableBinaryByteLength", "indicesByteLength", "positionByteLength",
       "polylinePositionByteLength", "pointsPositionByteLength" >>

\* a typed-array reference of the feature table JSON: {byteOffset : n}
ByteOffsetRef(present, wordOffset) ==
    IF present THEN Some([byteOffset |-> wordOffset * sizeOfUint16]) ELSE Undefined

ArrayOf(opt) == IF defined(opt) THEN opt.value ELSE << >>

\* The feature table of a tile with P polygons, L polylines and N points whose
\* optional arrays are pgIds, plIds, ptIds and widths (Undefined: key absent) and
\* whose per-polygon height keys are present as hasMin, hasMax say.  A count of 0
\* is written by leaving the length key out.  The binary holds the present arrays
\* one after the other.
FeatureTable(P, L, N, pgIds, plIds, ptIds, widths, hasMin, hasMax) ==
    LET len(n) == IF n = 0 THEN Undefined ELSE Some(n)
        o1 == Len(ArrayOf(pgIds))
        o2 == o1 + Len(ArrayOf(plIds))
        o3 == o2 + Len(ArrayOf(ptIds))
    IN  [ json |->
            [ POLYGONS_LENGTH |-> len(P),
              POLYLINES_LENGTH |-> len(L),
              POINTS_LENGTH |-> len(N),
              POLYGON_BATCH_IDS |-> ByteOffsetRef(defined(pgIds), 0),
              POLYLINE_BATCH_IDS |-> ByteOffsetRef(defined(plIds), o1),
              POINT_BATCH_IDS |-> ByteOffsetRef(defined(ptIds), o2),
              POLYLINE_WIDTHS |-> ByteOffsetRef(defined(widths), o3),
              POLYGON_MINIMUM_HEIGHTS |-> ByteOffsetRef(hasMin, 0),
              POLYGON_MAXIMUM_HEIGHTS |-> ByteOffsetRef(hasMax, 0) ],
          binary |-> ArrayOf(pgIds) \o ArrayOf(plIds) \o ArrayOf(ptIds) \o ArrayOf(widths) ]

PrimitiveCounts ==
    { c \in (0..MaxPrimitives) \X (0..MaxPrimitives) \X (0..MaxPrimitives) :
        c[1] + c[2] + c[3] <= MaxPrimitives }

OptionalBatchIds(n) == {Undefined} \cup { Some(a) : a \in [1..n -> 0..MaxBatchId] }
OptionalWidths(n) == {Undefined} \cup { Some([i \in 1..n |-> w]) : w \in {1, 3} }

\* The tile: its header fields, the feature table and the point position section
\* (the other sections are handed on unread, so only their lengths are kept).
Tile(magic, version, byteLength, featureTableJSONByteLength, featureTable, sections) ==
    [ magic |-> magic, version |-> version, byteLength |-> byteLength,
      featureTableJSONByteLength |-> featureTableJSONByteLength,
      featureTableBinaryByteLength |-> Len(featureTable.binary) * sizeOfUint16,
      batchTableJSONByteLength |-> sections.batchTableJSONByteLength,
      batchTableBinaryByteLength |-> sections.batchTableBinaryByteLength,
      indicesByteLength |-> sections.indicesByteLength,
      positionByteLength |-> sections.positionByteLength,
      polylinePositionByteLength |-> sections.polylinePositionByteLength,
      pointsPositionByteLength |-> sections.pointsPositionByteLength,
      featureTableJson |-> featureTable.json,
      featureTableBinary |-> featureTable.binary,
      pointPositions |-> sections.pointPositions ]

\* n coordinates of 0
Zeros(n) == [i \in 1..n |-> 0]

\* what a producer encodes: FeatureTable's arguments and the quantized coordinates
\* of the points (all 0 unless said otherwise)
Encoded(P, L, N, pgIds, plIds, ptIds, widths, hasMin, hasMax) ==
    [ polygons |-> P, polylines |-> L, points |-> N,
      polygonBatchIds |-> pgIds, polylineBatchIds |-> plIds, pointBatchIds |-> ptIds,
      polylineWidths |-> widths, minimumHeights |-> hasMin, maximumHeights |-> hasMax,
      pointCoordinates |-> [u |-> Zeros(N), v |-> Zeros(N), height |-> Zeros(N)] ]

\* The sections a producer writes after the feature table for what it encodes: no
\* batch table, a triangle (three indices, three vertices of u and v) per polygon,
\* a segment (two vertices of u, v and height) per polyline, and the points' u, v
\* and height arrays one after the other, each zig-zag delta coded.
SectionsOf(e) ==
    [ batchTableJSONByteLength |-> 0,
      batchTableBinaryByteLength |-> 0,
      indicesByteLength |-> 3 * sizeOfUint32 * e.polygons,
      positionByteLength |-> 3 * 2 * sizeOfUint16 * e.polygons,
      polylinePositionByteLength |-> 2 * 3 * sizeOfUint16 * e.polylines,
      pointsPositionByteLength |-> 3 * sizeOfUint16 * e.points,
      pointPositions |-> zigZagDeltaEncode(e.pointCoordinates.u)
                           \o zigZagDeltaEncode(e.pointCoordinates.v)
                           \o zigZagDeltaEncode(e.pointCoordinates.height) ]

FeatureTableOf(e) ==
    FeatureTable(e.polygons, e.polylines, e.points, e.polygonBatchIds, e.polylineBatchIds,
                 e.pointBatchIds, e.polylineWidths, e.minimumHeights, e.maximumHeights)

\* Tiles whose header is wrong, empty or short: initialize returns or throws before
\* it reads the feature table, so one feature table (a polygon, a polyline and a
\* point, nothing optional) stands for all of them.
InitHeaderTile ==
    /\ encoded = Encoded(1, 1, 1, Undefined, Undefined, Undefined, Undefined, FALSE, FALSE)
    /\ \E magic \in {"vctr", "xxxx"}, version \in 0..2, byteLength \in {0, 64},
          ftLength \in {0, 16} :
           arrayBuffer = Tile(magic, version, byteLength, ftLength, FeatureTableOf(encoded),
                              SectionsOf(encoded))

\* Tiles with a good header and any feature table within the bounds.
InitBodyTile ==
    /\ \E c \in PrimitiveCounts :
        \E pg \in OptionalBatchIds(c[1]), pl \in OptionalBatchIds(c[2]),
           pt \in OptionalBatchIds(c[3]), w \in OptionalWidths(c[2]),
           hasMin \in BOOLEAN, hasMax \in BOOLEAN :
            encoded = Encoded(c[1], c[2], c[3], pg, pl, pt, w, hasMin, hasMax)
    /\ arrayBuffer = Tile("vctr", 1, 64, 16, FeatureTableOf(encoded), SectionsOf(encoded))

\* Tiles at the end of the Uint16 range: Uint16Range - 1 or Uint16Range polygons and
\* one polyline or one point, nothing optional.
InitWideTile ==
    /\ \E P \in {Uint16Range - 1, Uint16Range}, L \in 0..1 :
           encoded = Encoded(P, L, 1 - L, Undefined, Undefined, Undefined, Undefined,
                             FALSE, FALSE)
    /\ arrayBuffer = Tile("vctr", 1, 64, 16, FeatureTableOf(encoded), SectionsOf(encoded))

\* Tiles whose section lengths vary: a feature table JSON of either length, a batch
\* table JSON and binary (a binary only with a JSON), indices and polygon and
\* polyline positions each declared with 0 or 8 bytes, whatever the primitive
\* counts are.  Nothing optional.
InitCursorTile ==
    /\ \E c \in PrimitiveCounts :
           encoded = Encoded(c[1], c[2], c[3], Undefined, Undefined, Undefined, Undefined,
                             FALSE, FALSE)
    /\ \E ftLength \in {16, 24}, batchJson \in {0, 8}, batchBinary \in {0, 8},
          indices \in {0, 8}, positions \in {0, 8}, polylinePositions \in {0, 8} :
           /\ batchBinary > 0 => batchJson > 0
           /\ arrayBuffer =
               Tile("vctr", 1, 64, ftLength, FeatureTableOf(encoded),
                    [SectionsOf(encoded) EXCEPT
                       !.batchTableJSONByteLength = batchJson,
                       !.batchTableBinaryByteLength = batchBinary,
                       !.indicesByteLength = indices,
                       !.positionByteLength = positions,
                       !.polylinePositionByteLength = polylinePositions])

\* Tiles for features and styles: the empty tile and tiles of any number of polygons
\* and points (a polyline's feature is made as a polygon's is), nothing optional.
InitStyleTile ==
    /\ \E c \in PrimitiveCounts :
           /\ c[2] = 0
           /\ encoded = Encoded(c[1], c[2], c[3], Undefined, Undefined, Undefined,
                                Undefined, FALSE, FALSE)
    /\ \E byteLength \in {0, 64} :
           arrayBuffer = Tile("vctr", 1, byteLength, 16, FeatureTableOf(encoded),
                              SectionsOf(encoded))

\* the 16-bit coordinates the point tiles are made of: the ends of the range and
\* the middle
CoordinateSamples == {0, Uint16Range \div 2, Uint16Range - 1}
Coordinates(n) == [1..n -> CoordinateSamples]

\* Tiles of up to MaxPoints points with any sampled coordinates, nothing optional.
InitPointsTile ==
    /\ \E N \in 0..MaxPoints :
        \E u \in Coordinates(N), v \in Coordinates(N), height \in Coordinates(N) :
           encoded = [Encoded(0, 0, N, Undefined, Undefined, Undefined, Undefined,
                              FALSE, FALSE)
                        EXCEPT !.pointCoordinates = [u |-> u, v |-> v, height |-> height]]
    /\ arrayBuffer = Tile("vctr", 1, 64, 16, FeatureTableOf(encoded), SectionsOf(encoded))

----------------------------------------------------------------------------
(* The readiness signal: a deferred of ThirdParty/when.  It settles once:  *)
(* the first resolve() makes it resolved and notifies the waiters, a later *)
(* resolve() changes nothing.                                              *)

defer == [state |-> "pending", resolveCalls |-> 0, notified |-> 0]

\* every resolve() notifies
resolve_EveryCall(deferred) ==
    [ state |-> "resolved",
      resolveCalls |-> deferred.resolveCalls + 1,
      notified |-> deferred.notified + 1 ]

resolve(deferred) ==
    [ state |-> "resolved",
      resolveCalls |-> deferred.resolveCalls + 1,
      notified |-> IF deferred.state = "pending" THEN deferred.notified + 1
                   ELSE deferred.notified ]

----------------------------------------------------------------------------
(* The constructor and initialize.                                         *)

\* function Vector3DTileContent, before it calls initialize
NewContent ==
    [ polygons |-> Undefined,
      polylines |-> Undefined,
      billboardCollection |-> Undefined,
      labelCollection |-> Undefined,
      polylineCollection |-> Undefined,
      readyPromise |-> defer,
      batchTable |-> Undefined,
      features |-> Undefined,
      featurePropertiesDirty |-> FALSE,
      polygonReadyPromise |-> Undefined,
      isDestroyed |-> FALSE ]

\* the featuresLength getter
featuresLength(c) == IF defined(c.batchTable) THEN c.batchTable.value.featuresLength ELSE 0

\* what a run of initialize leaves: the content, the error thrown ("none": it
\* returned), the header fields read and the sections located
Outcome(c, err, nRead, sections) ==
    [ content |-> c, error |-> err, headerReads |-> SubSeq(HeaderFields, 1, nRead),
      sectionReads |-> sections ]

\* the magic is not compared
magicIsValid_Any(magic) == TRUE
\* newer versions are let through
versionIsSupported_AtLeast1(version) == version >= 1
\* the empty tile is not told apart
isEmptyTile_Never(byteLength) == FALSE
\* the zero length is not checked
featureTableIsMissing_Never(featureTableJSONByteLength) == FALSE

magicIsValid(magic) == magic = "vctr"
versionIsSupported(version) == version = 1
isEmptyTile(byteLength) == byteLength = 0
featureTableIsMissing(featureTableJSONByteLength) == featureTableJSONByteLength = 0

\* an explicit batch-id array: read only for a type that has instances
explicitBatchIds(numberOf, ref, featureTableBinary) ==
    IF numberOf > 0 /\ defined(ref)
    THEN Some(Uint16ArrayView(featureTableBinary, ref.value.byteOffset, numberOf))
    ELSE Undefined

\* ids are synthesized as soon as one type lacks them
noExplicitBatchIds_AnyMissing(polygonBatchIds, polylineBatchIds, pointBatchIds) ==
    ~defined(polygonBatchIds) \/ ~defined(polylineBatchIds) \/ ~defined(pointBatchIds)

\* the guard of the synthesis block
noExplicitBatchIds(polygonBatchIds, polylineBatchIds, pointBatchIds) ==
    ~defined(polygonBatchIds) /\ ~defined(polylineBatchIds) /\ ~defined(pointBatchIds)

Max(a, b) == IF a >= b THEN a ELSE b

RECURSIVE maxOver(_, _, _)
\* for (i = 0; i < n; ++i) maxId = Math.max(maxId, batchIds[i])
maxOver(maxId, batchIds, i) ==
    IF i > Len(batchIds) THEN maxId
    ELSE maxOver(Max(maxId, batchIds[i]), batchIds, i + 1)

maxIdOf(maxId, batchIds) ==
    IF defined(batchIds) THEN maxOver(maxId, batchIds.value, 1) ELSE maxId

\* the first id the synthesis hands out
firstSynthesizedId(polygonBatchIds, polylineBatchIds, pointBatchIds) ==
    maxIdOf(maxIdOf(maxIdOf(-1, polygonBatchIds), polylineBatchIds), pointBatchIds) + 1

\* batchIds[i] = ++maxId
sequentialIds_PreIncrement(maxId, numberOf) == [i \in 1..numberOf |-> ToUint16(maxId + i)]

\* batchIds = new Uint16Array(numberOf); batchIds[i] = maxId++
sequentialIds(maxId, numberOf) == [i \in 1..numberOf |-> ToUint16(maxId + i - 1)]

needsIds(batchIds, numberOf) == ~defined(batchIds) /\ numberOf > 0

\* The batch ids of the three types: the explicit arrays and, when no type has
\* one, the synthesized ones.
batchIdsOf(json, binary, numberOfPolygons, numberOfPolylines, numberOfPoints) ==
    LET pg == explicitBatchIds(numberOfPolygons, json.POLYGON_BATCH_IDS, binary)
        pl == explicitBatchIds(numberOfPolylines, json.POLYLINE_BATCH_IDS, binary)
        pt == explicitBatchIds(numberOfPoints, json.POINT_BATCH_IDS, binary)
    IN  IF noExplicitBatchIds(pg, pl, pt)
        THEN LET maxId0 == firstSynthesizedId(pg, pl, pt)
                 maxId1 == IF needsIds(pg, numberOfPolygons)
                           THEN maxId0 + numberOfPolygons ELSE maxId0
                 maxId2 == IF needsIds(pl, numberOfPolylines)
                           THEN maxId1 + numberOfPolylines ELSE maxId1
             IN  [ polygonBatchIds |->
                       IF needsIds(pg, numberOfPolygons)
                       THEN Some(sequentialIds(maxId0, numberOfPolygons)) ELSE pg,
                   polylineBatchIds |->
                       IF needsIds(pl, numberOfPolylines)
                       THEN Some(sequentialIds(maxId1, numberOfPolylines)) ELSE pl,
                   pointBatchIds |->
                       IF needsIds(pt, numberOfPoints)
                       THEN Some(sequentialIds(maxId2, numberOfPoints)) ELSE pt ]
        ELSE [polygonBatchIds |-> pg, polylineBatchIds |-> pl, pointBatchIds |-> pt]

\* per-polygon heights are taken only when both keys are there
polygonHeights(json, key) ==
    IF defined(json.POLYGON_MINIMUM_HEIGHTS) /\ defined(json.POLYGON_MAXIMUM_HEIGHTS)
    THEN Some(json[key].value) ELSE Undefined

\* new Vector3DTilePolygons({...})
newPolygons(json, polygonBatchIds) ==
    [ batchIds |-> polygonBatchIds,
      polygonMinimumHeights |-> polygonHeights(json, "POLYGON_MINIMUM_HEIGHTS"),
      polygonMaximumHeights |-> polygonHeights(json, "POLYGON_MAXIMUM_HEIGHTS") ]

\* the widths the tile brings are not looked at
polylineWidths_AlwaysDefault(json, binary, numberOfPolylines) ==
    [i \in 1..numberOfPolylines |-> 2]

\* the widths of the polylines: 2.0 each unless the tile brings them
polylineWidths(json, binary, numberOfPolylines) ==
    IF ~defined(json.POLYLINE_WIDTHS)
    THEN [i \in 1..numberOfPolylines |-> 2]
    ELSE Uint16ArrayView(binary, json.POLYLINE_WIDTHS.value.byteOffset, numberOfPolylines)

\* new Vector3DTilePolylines({...})
newPolylines(json, binary, numberOfPolylines, polylineBatchIds) ==
    [ batchIds |-> polylineBatchIds,
      widths |-> polylineWidths(json, binary, numberOfPolylines) ]

\* the quantized coordinates of the points: the three sub-arrays of the point
\* position section, decoded
pointCoordinates(buffer, numberOfPoints) ==
    LET pointPositions == Uint16ArrayView(buffer.pointPositions, 0,
                                          buffer.pointsPositionByteLength \div sizeOfUint16)
    IN  zigZagDeltaDecode(subarray(pointPositions, 0, numberOfPoints),
                          subarray(pointPositions, numberOfPoints, 2 * numberOfPoints),
                          subarray(pointPositions, 2 * numberOfPoints, 3 * numberOfPoints))

\* the position of point i: lon, lat and alt are lerps of u, v and height over
\* the tile's rectangle and heights, so the quantized triple stands for it
positionOf(coordinates, i) == <<coordinates.u[i], coordinates.v[i], coordinates.height[i]>>

\* The points: three collections, then a billboard, a label and a zero-length
\* polyline per point.  pointBatchIds[i] throws a TypeError when pointBatchIds is
\* undefined, with the collections made and nothing in them.
decodePoints(c, buffer, numberOfPoints, pointBatchIds, sections) ==
    LET made == [c EXCEPT !.billboardCollection = Some(<< >>),
                          !.labelCollection = Some(<< >>),
                          !.polylineCollection = Some(<< >>)]
        coordinates == pointCoordinates(buffer, numberOfPoints)
    IN  IF ~defined(pointBatchIds)
        THEN Outcome(made, "TypeError", Len(HeaderFields), sections)
        ELSE Outcome(
               [made EXCEPT
                  !.billboardCollection =
                      Some([i \in 1..numberOfPoints |->
                              [ position |-> positionOf(coordinates, i),
                                batchIndex |-> pointBatchIds.value[i] ]]),
                  !.labelCollection =
                      Some([i \in 1..numberOfPoints |->
                              [ text |-> " ",
                                position |-> positionOf(coordinates, i),
                                batchIndex |-> pointBatchIds.value[i] ]]),
                  !.polylineCollection =
                      Some([i \in 1..numberOfPoints |->
                              [ positions |-> << positionOf(coordinates, i),
                                                 positionOf(coordinates, i) >> ]])],
               "none", Len(HeaderFields), sections)

\* a section located at byteOffset
Section(name, byteOffset) == [section |-> name, byteOffset |-> byteOffset]

\* The sections initialize locates, with the byteOffset it has when it reaches
\* each: the cursor is advanced past the batch table binary only inside the batch
\* table JSON branch, past the indices and the polygon positions only when there
\* are polygons, and past the polyline positions only when there are polylines.
locateSections(buffer, numberOfPolygons, numberOfPolylines, numberOfPoints) ==
    LET atFeatureTableJson == Len(HeaderFields) * sizeOfUint32
        atFeatureTableBinary == atFeatureTableJson + buffer.featureTableJSONByteLength
        atBatchTableJson == atFeatureTableBinary + buffer.featureTableBinaryByteLength
        hasBatchTableJson == buffer.batchTableJSONByteLength > 0
        hasBatchTableBinary == hasBatchTableJson /\ buffer.batchTableBinaryByteLength > 0
        atBatchTableBinary ==
            IF hasBatchTableJson THEN atBatchTableJson + buffer.batchTableJSONByteLength
            ELSE atBatchTableJson
        atIndices ==
            IF hasBatchTableBinary THEN atBatchTableBinary + buffer.batchTableBinaryByteLength
            ELSE atBatchTableBinary
        atPolygonPositions == atIndices + buffer.indicesByteLength
        atPolylinePositions ==
            IF numberOfPolygons > 0 THEN atPolygonPositions + buffer.positionByteLength
            ELSE atIndices
        atPointPositions ==
            IF numberOfPolylines > 0
            THEN atPolylinePositions + buffer.polylinePositionByteLength
            ELSE atPolylinePositions
    IN  << Section("featureTableJSON", atFeatureTableJson),
           Section("featureTableBinary", atFeatureTableBinary) >>
          \o (IF hasBatchTableJson
              THEN <<Section("batchTableJSON", atBatchTableJson)>> ELSE << >>)
          \o (IF hasBatchTableBinary
              THEN <<Section("batchTableBinary", atBatchTableBinary)>> ELSE << >>)
          \o (IF numberOfPolygons > 0
              THEN << Section("indices", atIndices),
                      Section("polygonPositions", atPolygonPositions) >>
              ELSE << >>)
          \o (IF numberOfPolylines > 0
              THEN <<Section("polylinePositions", atPolylinePositions)>> ELSE << >>)
          \o (IF numberOfPoints > 0
              THEN <<Section("pointPositions", atPointPositions)>> ELSE << >>)

\* initialize from the feature table on
decodeBody(c, buffer) ==
    LET json == buffer.featureTableJson
        binary == buffer.featureTableBinary
        numberOfPolygons == defaultValue(json.POLYGONS_LENGTH, 0)
        numberOfPolylines == defaultValue(json.POLYLINES_LENGTH, 0)
        numberOfPoints == defaultValue(json.POINTS_LENGTH, 0)
        totalPrimitives == numberOfPolygons + numberOfPolylines + numberOfPoints
        withTable == [c EXCEPT !.batchTable = Some([featuresLength |-> totalPrimitives])]
        ids == batchIdsOf(json, binary, numberOfPolygons, numberOfPolylines, numberOfPoints)
        withPolygons ==
            IF numberOfPolygons > 0
            THEN [withTable EXCEPT !.polygons = Some(newPolygons(json, ids.polygonBatchIds))]
            ELSE withTable
        withPolylines ==
            IF numberOfPolylines > 0
            THEN [withPolygons EXCEPT !.polylines =
                    Some(newPolylines(json, binary, numberOfPolylines, ids.polylineBatchIds))]
            ELSE withPolygons
        sections == locateSections(buffer, numberOfPolygons, numberOfPolylines,
                                   numberOfPoints)
    IN  IF totalPrimitives = 0 THEN Outcome(withTable, "none", Len(HeaderFields), sections)
        ELSE IF numberOfPoints > 0
             THEN decodePoints(withPolylines, buffer, numberOfPoints, ids.pointBatchIds,
                               sections)
             ELSE Outcome(withPolylines, "none", Len(HeaderFields), sections)

initialize(c, buffer) ==
    IF ~magicIsValid(buffer.magic) THEN Outcome(c, "DeveloperError", 1, << >>)
    ELSE IF ~versionIsSupported(buffer.version) THEN Outcome(c, "DeveloperError", 2, << >>)
    ELSE IF isEmptyTile(buffer.byteLength)
         THEN Outcome([c EXCEPT !.readyPromise = resolve(@)], "none", 3, << >>)
    ELSE IF featureTableIsMissing(buffer.featureTableJSONByteLength)
         THEN Outcome(c, "DeveloperError", 4, << >>)
    ELSE decodeBody(c, buffer)

----------------------------------------------------------------------------
(* Feature facades and styles.  A facade (Scene/Cesium3DTileFeature) is    *)
(* the object the style properties are written to; a property no pass has  *)
(* written yet reads undefined.  A style gives an expression for every     *)
(* property but the optional ones, which it may leave undefined.           *)

\* a literal of the source
Constant(v) == [constant |-> v]

\* what style[property].evaluate(frameState, feature) returns for the feature
Evaluated(property, batchId) == [style |-> property, feature |-> batchId]

\* new NearFarScalar(cart4.x, cart4.y, cart4.z, cart4.w)
NearFarScalar(cart4) == [nearFarScalar |-> cart4]
\* new DistanceDisplayCondition(cart2.x, cart2.y)
DistanceDisplayCondition(cart2) == [distanceDisplayCondition |-> cart2]

\* new Cesium3DTileFeature(tileset, content, batchId[, the three collections])
newFeature(batchId, withCollections) ==
    [ batchId |-> batchId, collections |-> withCollections,
      show |-> Undefined, color |-> Undefined, pointSize |-> Undefined,
      pointColor |-> Undefined, pointOutlineColor |-> Undefined,
      pointOutlineWidth |-> Undefined, labelOutlineColor |-> Undefined,
      labelOutlineWidth |-> Undefined, font |-> Undefined, labelStyle |-> Undefined,
      labelText |-> Undefined, backgroundColor |-> Undefined,
      backgroundPadding |-> Undefined, backgroundEnabled |-> Undefined,
      scaleByDistance |-> Undefined, translucencyByDistance |-> Undefined,
      distanceDisplayCondition |-> Undefined, heightOffset |-> Undefined,
      anchorLineEnabled |-> Undefined, anchorLineColor |-> Undefined, image |-> Undefined,
      scaleBydistance |-> Undefined, distanceDisplatCondition |-> Undefined ]

\* an optional property of a style
OptionalExpression == {Undefined, Some("expression")}

\* the optional properties a style defines: none, one of them, or all
Styles ==
    { style \in [ labelText : OptionalExpression, backgroundColor : OptionalExpression,
                  backgroundPadding : OptionalExpression, scaleByDistance : OptionalExpression,
                  translucencyByDistance : OptionalExpression,
                  distanceDisplayCondition : OptionalExpression, image : OptionalExpression ] :
        Cardinality({ p \in DOMAIN style : defined(style[p]) }) \in {0, 1, 7} }

\* function createFeatures(content)
createFeatures(c) ==
    IF ~defined(c.features) /\ featuresLength(c) > 0
    THEN [c EXCEPT !.features =
            Some([ k \in 1..featuresLength(c) |->
                     newFeature(k - 1,
                                /\ defined(c.billboardCollection)
                                /\ k - 1 < Len(c.billboardCollection.value)) ])]
    ELSE c

\* the upper end of the range is let through
batchIdIsInvalid_OffByOne(batchId, length) ==
    ~defined(batchId) \/ batchId.value < 0 \/ batchId.value > length

\* !defined(batchId) || (batchId < 0) || (batchId >= featuresLength)
batchIdIsInvalid(batchId, length) ==
    ~defined(batchId) \/ batchId.value < 0 \/ batchId.value >= length

\* the background colour is left as the last style set it
clearStyleWrites_KeepsBackground ==
    << <<"show", Constant(TRUE)>>, <<"color", Constant("WHITE")>>,
       <<"pointSize", Constant(8)>>, <<"pointColor", Constant("WHITE")>>,
       <<"pointOutlineColor", Constant("BLACK")>>, <<"pointOutlineWidth", Constant(0)>>,
       <<"labelOutlineColor", Constant("WHITE")>>, <<"labelOutlineWidth", Constant(1)>>,
       <<"font", Constant("30px sans-serif")>>, <<"labelStyle", Constant("FILL")>>,
       <<"labelText", Undefined>>, <<"backgroundPadding", Undefined>>,
       <<"backgroundEnabled", Constant(FALSE)>>, <<"scaleByDistance", Undefined>>,
       <<"translucencyByDistance", Undefined>>, <<"distanceDisplayCondition", Undefined>>,
       <<"heightOffset", Constant(0)>>, <<"anchorLineEnabled", Constant(FALSE)>>,
       <<"anchorLineColor", Constant("WHITE")>>, <<"image", Undefined>> >>

\* the assignments of one iteration of clearStyle's loop
clearStyleWrites ==
    << <<"show", Constant(TRUE)>>, <<"color", Constant("WHITE")>>,
       <<"pointSize", Constant(8)>>, <<"pointColor", Constant("WHITE")>>,
       <<"pointOutlineColor", Constant("BLACK")>>, <<"pointOutlineWidth", Constant(0)>>,
       <<"labelOutlineColor", Constant("WHITE")>>, <<"labelOutlineWidth", Constant(1)>>,
       <<"font", Constant("30px sans-serif")>>, <<"labelStyle", Constant("FILL")>>,
       <<"labelText", Undefined>>, <<"backgroundColor", Undefined>>,
       <<"backgroundPadding", Undefined>>, <<"backgroundEnabled", Constant(FALSE)>>,
       <<"scaleByDistance", Undefined>>, <<"translucencyByDistance", Undefined>>,
       <<"distanceDisplayCondition", Undefined>>, <<"heightOffset", Constant(0)>>,
       <<"anchorLineEnabled", Constant(FALSE)>>, <<"anchorLineColor", Constant("WHITE")>>,
       <<"image", Undefined>> >>

\* feature[property] = style[property].evaluate(frameState, feature)
evaluatedWrite(property, batchId) == <<property, Evaluated(property, batchId)>>

\* if (defined(style[property])) feature[property] = ...evaluate...;
\* else feature[otherwise] = undefined
optionalWrite(style, property, value, otherwise) ==
    IF defined(style[property]) THEN <<property, value>> ELSE <<otherwise, Undefined>>

\* The assignments of one iteration of applyStyle's loop, as the source spells
\* them: the background colour and padding are written only when the style has
\* them, a style without scaleByDistance writes scaleBydistance, and a style with
\* distanceDisplayCondition writes distanceDisplatCondition.
applyStyleWrites(style, batchId) ==
    << evaluatedWrite("color", batchId), evaluatedWrite("show", batchId),
       evaluatedWrite("pointSize", batchId), evaluatedWrite("pointColor", batchId),
       evaluatedWrite("pointOutlineColor", batchId),
       evaluatedWrite("pointOutlineWidth", batchId),
       evaluatedWrite("labelOutlineColor", batchId),
       evaluatedWrite("labelOutlineWidth", batchId),
       evaluatedWrite("font", batchId), evaluatedWrite("labelStyle", batchId),
       optionalWrite(style, "labelText", Evaluated("labelText", batchId), "labelText") >>
      \o (IF defined(style.backgroundColor)
          THEN <<evaluatedWrite("backgroundColor", batchId)>> ELSE << >>)
      \o (IF defined(style.backgroundPadding)
          THEN <<evaluatedWrite("backgroundPadding", batchId)>> ELSE << >>)
      \o << evaluatedWrite("backgroundEnabled", batchId),
            optionalWrite(style, "scaleByDistance",
                          NearFarScalar(Evaluated("scaleByDistance", batchId)),
                          "scaleBydistance"),
            optionalWrite(style, "translucencyByDistance",
                          NearFarScalar(Evaluated("translucencyByDistance", batchId)),
                          "translucencyByDistance"),
            IF defined(style.distanceDisplayCondition)
            THEN << "distanceDisplatCondition",
                    DistanceDisplayCondition(Evaluated("distanceDisplayCondition", batchId)) >>
            ELSE <<"distanceDisplayCondition", Undefined>>,
            evaluatedWrite("heightOffset", batchId),
            evaluatedWrite("anchorLineEnabled", batchId),
            evaluatedWrite("anchorLineColor", batchId),
            optionalWrite(style, "image", Evaluated("image", batchId), "image") >>

\* what a pass writes to the feature: clearStyle's assignments without a style
writesOf(style, batchId) ==
    IF defined(style) THEN applyStyleWrites(style.value, batchId) ELSE clearStyleWrites

RECURSIVE assign(_, _, _)
\* the feature after the assignments from the k-th on, in order
assign(feature, writes, k) ==
    IF k > Len(writes) THEN feature
    ELSE assign([feature EXCEPT ![writes[k][1]] = writes[k][2]], writes, k + 1)

\* the image is resolved before the properties are written
iteration_ImageFirst(batchId, writes) ==
    << <<batchId, "_setBillboardImage">> >>
      \o [k \in 1..Len(writes) |-> <<batchId, writes[k][1]>>]

\* what one iteration of either loop does to its feature, in order: the
\* assignments, then feature._setBillboardImage()
iteration(batchId, writes) ==
    [k \in 1..Len(writes) |-> <<batchId, writes[k][1]>>]
      \o << <<batchId, "_setBillboardImage">> >>

RECURSIVE passLog(_, _, _)
\* for (var i = 0; i < length; ++i): the iterations from i on
passLog(style, length, i) ==
    IF i >= length THEN << >>
    ELSE iteration(i, writesOf(style, i)) \o passLog(style, length, i + 1)

\* the loop of clearStyle and of applyStyle over the features
stylePass(features, style) ==
    [ features |-> [k \in 1..Len(features) |->
                       assign(features[k], writesOf(style, k - 1), 1)],
      log |-> passLog(style, Len(features), 0) ]

----------------------------------------------------------------------------
(* DynamicObjectCollection (unnamed/part_000): an observable collection of *)
(* DynamicObject instances, each with an id that is unique in the          *)
(* collection.  Ids are property names of the collection's _hash object    *)
(* that Object.prototype does not define.                                  *)

ObjectIds == 1..MaxIds

\* new DynamicObject(id): an object is its id and what tells it from the other
\* objects that have the same id
DynamicObject(id, instance) == [id |-> id, instance |-> instance]

\* the objects the caller holds before it calls the collection: one for each id
CallerObjects == { DynamicObject(id, 0) : id \in ObjectIds }

\* function DynamicObjectCollection
NewCollection ==
    [ added |-> << >>,
      array |-> << >>,
      removed |-> << >>,
      hash |-> [id \in ObjectIds |-> Undefined],
      suspectRefCount |-> 0 ]

\* indexOf that never finds the element
indexOf_NotFound(array, element) == -1

\* Array.prototype.indexOf: the first index of the element, from 0, or -1
indexOf(array, element) ==
    IF \E k \in 1..Len(array) : array[k] = element
    THEN (CHOOSE k \in 1..Len(array) :
              /\ array[k] = element
              /\ \A j \in 1..(k - 1) : array[j] # element) - 1
    ELSE -1

\* Array.prototype.splice(index, 1): a negative index counts from the end
splice(array, index) ==
    LET start == IF index < 0 THEN Max(Len(array) + index, 0) ELSE index
    IN  [k \in 1..(Len(array) - (IF start < Len(array) THEN 1 ELSE 0)) |->
            IF k <= start THEN array[k] ELSE array[k + 1]]

\* Array.prototype.push
push(array, element) == Append(array, element)

\* the objects of an array
elementsOf(array) == { array[k] : k \in 1..Len(array) }

\* what a call of a method of the collection comes to: the collection after it,
\* what it threw ("none": it returned), what it returned and the events it raised
Returned(c, result, raised) ==
    [collection |-> c, error |-> "none", result |-> result, raised |-> raised]
Threw(c, err) ==
    [collection |-> c, error |-> err, result |-> Undefined, raised |-> << >>]

\* collection._collectionChanged.raiseEvent(collection, added, removed)
raiseEvent(added, removed) == [added |-> added, removed |-> removed]

\* fireChangedEvent that raises the event whatever the suspend count is
fireChangedEvent_IgnoresSuspension(c) ==
    IF Len(c.added) # 0 \/ Len(c.removed) # 0
    THEN Returned([c EXCEPT !.added = << >>, !.removed = << >>], Undefined,
                  << raiseEvent(c.added, c.removed) >>)
    ELSE Returned(c, Undefined, << >>)

\* function fireChangedEvent(collection)
fireChangedEvent(c) ==
    IF c.suspectRefCount = 0 /\ (Len(c.added) # 0 \/ Len(c.removed) # 0)
    THEN Returned([c EXCEPT !.added = << >>, !.removed = << >>], Undefined,
                  << raiseEvent(c.added, c.removed) >>)
    ELSE Returned(c, Undefined, << >>)

\* DynamicObjectCollection.prototype.suspendEvents
suspendEvents(c) ==
    Returned([c EXCEPT !.suspectRefCount = @ + 1], Undefined, << >>)

\* resumeEvents without the check of the suspend count
resumeEvents_Unchecked(c) ==
    fireChangedEvent([c EXCEPT !.suspectRefCount = @ - 1])

\* DynamicObjectCollection.prototype.resumeEvents
resumeEvents(c) ==
    IF c.suspectRefCount = 0
    THEN Threw(c, "DeveloperError")
    ELSE fireChangedEvent([c EXCEPT !.suspectRefCount = @ - 1])

\* add that does not look for the id in the collection
add_Overwrites(c, dynamicObject) ==
    IF ~defined(dynamicObject)
    THEN Threw(c, "DeveloperError")
    ELSE LET object == dynamicObject.value
             index == indexOf(c.removed, object)
         IN  fireChangedEvent(
                 [c EXCEPT !.hash[object.id] = Some(object),
                           !.array = push(@, object),
                           !.removed = IF index # -1 THEN splice(@, index) ELSE @,
                           !.added = IF index # -1 THEN @ ELSE push(@, object)])

\* DynamicObjectCollection.prototype.add
add(c, dynamicObject) ==
    IF ~defined(dynamicObject)
    THEN Threw(c, "DeveloperError")
    ELSE LET object == dynamicObject.value
             index == indexOf(c.removed, object)
         IN  IF defined(c.hash[object.id])
             THEN Threw(c, "DeveloperError")
             ELSE fireChangedEvent(
                      [c EXCEPT !.hash[object.id] = Some(object),
                                !.array = push(@, object),
                                !.removed = IF index # -1 THEN splice(@, index) ELSE @,
                                !.added = IF index # -1 THEN @ ELSE push(@, object)])

\* removeById that takes the first object of the array whatever the id is
removeById_FirstObject(c, id) ==
    IF ~defined(id)
    THEN Threw(c, "DeveloperError")
    ELSE IF Len(c.array) = 0
         THEN Returned(c, Some(FALSE), << >>)
         ELSE LET object == c.array[1]
                  index == indexOf(c.added, object)
                  fired == fireChangedEvent(
                               [c EXCEPT !.hash[object.id] = Undefined,
                                         !.array = splice(@, 0),
                                         !.added = IF index # -1 THEN splice(@, index) ELSE @,
                                         !.removed = IF index # -1 THEN @
                                                     ELSE push(@, object)])
              IN  Returned(fired.collection, Some(TRUE), fired.raised)

\* DynamicObjectCollection.prototype.removeById
removeById(c, id) ==
    IF ~defined(id)
    THEN Threw(c, "DeveloperError")
    ELSE LET dynamicObject == c.hash[id.value]
         IN  IF defined(dynamicObject)
             THEN LET object == dynamicObject.value
                      index == indexOf(c.added, object)
                      fired == fireChangedEvent(
                                   [c EXCEPT !.hash[id.value] = Undefined,
                                             !.array = splice(@, indexOf(@, object)),
                                             !.added = IF index # -1 THEN splice(@, index)
                                                       ELSE @,
                                             !.removed = IF index # -1 THEN @
                                                         ELSE push(@, object)])
                  IN  Returned(fired.collection, Some(TRUE), fired.raised)
             ELSE Returned(c, Some(FALSE), << >>)

\* DynamicObjectCollection.prototype.remove
remove(c, dynamicObject) ==
    IF ~defined(dynamicObject)
    THEN Threw(c, "DeveloperError")
    ELSE removeById(c, Some(dynamicObject.value.id))

\* the items of the array that are not in added, in the order of the array
RECURSIVE existingItems(_, _, _)
existingItems(array, added, i) ==
    IF i >= Len(array)
    THEN << >>
    ELSE (IF indexOf(added, array[i + 1]) = -1 THEN << array[i + 1] >> ELSE << >>)
             \o existingItems(array, added, i + 1)

\* removeAll that reports every object of the array as removed
removeAll_ReportsAll(c) ==
    fireChangedEvent([c EXCEPT !.removed = @ \o c.array,
                               !.added = << >>,
                               !.array = << >>,
                               !.hash = [id \in ObjectIds |-> Undefined]])

\* DynamicObjectCollection.prototype.removeAll
removeAll(c) ==
    fireChangedEvent([c EXCEPT !.removed = @ \o existingItems(c.array, c.added, 0),
                               !.added = << >>,
                               !.array = << >>,
                               !.hash = [id \in ObjectIds |-> Undefined]])

\* DynamicObjectCollection.prototype.getById
getById(c, id) == IF ~defined(id) THEN Threw(c, "DeveloperError")
                  ELSE Returned(c, c.hash[id.value], << >>)

\* DynamicObjectCollection.prototype.getObjects
getObjects(c) == c.array

\* getOrCreateObject that makes a new object whether or not the id is there
getOrCreateObject_AlwaysCreates(c, id, instance) ==
    IF ~defined(id)
    THEN Threw(c, "DeveloperError")
    ELSE LET dynamicObject == DynamicObject(id.value, instance)
             added == add_Overwrites(c, Some(dynamicObject))
         IN  [added EXCEPT !.result = Some(dynamicObject)]

\* DynamicObjectCollection.prototype.getOrCreateObject; instance tells the object
\* new DynamicObject(id) makes from every other object
getOrCreateObject(c, id, instance) ==
    IF ~defined(id)
    THEN Threw(c, "DeveloperError")
    ELSE IF ~defined(c.hash[id.value])
         THEN LET dynamicObject == DynamicObject(id.value, instance)
                  added == add(c, Some(dynamicObject))
              IN  [added EXCEPT !.result = Some(dynamicObject)]
         ELSE Returned(c, c.hash[id.value], << >>)

----------------------------------------------------------------------------
(* The state machine.                                                      *)

\* the objects a content owns
OwnedObjects ==
    {"polygons", "polylines", "billboardCollection", "labelCollection", "polylineCollection",
     "batchTable"}

\* a call of a method of the content: what it was given, what it threw ("none": it
\* returned), what it returned and what it did, in order
Call(op, argument, err, result, log) ==
    [op |-> op, argument |-> argument, error |-> err, result |-> result, log |-> log]

\* the constructor has set the fields and not yet called initialize
Unconstructed ==
    /\ phase = "new"
    /\ error = "none"
    /\ headerReads = << >>
    /\ sectionReads = << >>
    /\ content = NewContent
    /\ polygonsReadyPromise = "none"
    /\ continuation = "none"
    /\ updateCalled = FALSE
    /\ updated = {}
    /\ destroyCalls = [n \in OwnedObjects |-> 0]
    /\ atDestroy = Undefined
    /\ lastCall = Call("none", Undefined, "none", Undefined, << >>)
    /\ collection = NewCollection
    /\ dynamicObjects = CallerObjects
    /\ atSuspend = Undefined
    /\ lastCollectionCall = Call("none", Undefined, "none", Undefined, << >>)

Init ==
    /\ InitHeaderTile \/ InitBodyTile
    /\ Unconstructed

\* Init with the tiles at the end of the Uint16 range added
InitWide ==
    /\ InitHeaderTile \/ InitBodyTile \/ InitWideTile
    /\ Unconstructed

\* new Vector3DTileContent(tileset, tile, url, arrayBuffer, byteOffset)
Construct ==
    /\ phase = "new"
    /\ LET out == initialize(NewContent, arrayBuffer)
       IN  /\ content' = out.content
           /\ error' = out.error
           /\ headerReads' = out.headerReads
           /\ sectionReads' = out.sectionReads
           /\ phase' = IF out.error = "none" THEN "constructed" ELSE "threw"
           /\ polygonsReadyPromise' =
                  IF defined(out.content.polygons) THEN "pending" ELSE "none"
    /\ UNCHANGED <<collectionVars, tileVars, continuation, updateCalled, updated, destroyVars, lastCall>>

\* the owned objects update() forwards the frame to
forwardedTo(c) ==
    { n \in {"batchTable", "polygons", "polylines"} : defined(c[n]) }
      \cup (IF defined(c.billboardCollection)
            THEN {"billboardCollection", "labelCollection", "polylineCollection"}
            ELSE {})

\* update() that resolves on its first call whether or not there are polygons
Update_WithoutWaiting ==
    /\ phase = "constructed"
    /\ ~content.isDestroyed
    /\ updated' = forwardedTo(content)
    /\ updateCalled' = TRUE
    /\ lastCall' = Call("update", Undefined, "none", Undefined, << >>)
    /\ IF ~defined(content.polygonReadyPromise)
       THEN content' = [content EXCEPT !.polygonReadyPromise = Some("true"),
                                       !.readyPromise = resolve(@)]
       ELSE UNCHANGED content
    /\ UNCHANGED <<collectionVars, tileVars, constructorVars, polygonsReadyPromise, continuation,
                   destroyVars>>

\* Vector3DTileContent.prototype.update
Update ==
    /\ phase = "constructed"
    /\ ~content.isDestroyed
    /\ updated' = forwardedTo(content)
    /\ updateCalled' = TRUE
    /\ lastCall' = Call("update", Undefined, "none", Undefined, << >>)
    /\ IF ~defined(content.polygonReadyPromise)
       THEN IF defined(content.polygons)
            THEN /\ content' = [content EXCEPT !.polygonReadyPromise = Some("promise")]
                 /\ continuation' = "registered"
            ELSE /\ content' = [content EXCEPT !.polygonReadyPromise = Some("true"),
                                               !.readyPromise = resolve(@)]
                 /\ UNCHANGED continuation
       ELSE UNCHANGED <<content, continuation>>
    /\ UNCHANGED <<collectionVars, tileVars, constructorVars, polygonsReadyPromise, destroyVars>>

\* the polygon set's own readiness resolves (Vector3DTilePolygons)
PolygonsReady ==
    /\ polygonsReadyPromise = "pending"
    /\ polygonsReadyPromise' = "resolved"
    /\ UNCHANGED <<collectionVars, tileVars, constructorVars, content, continuation, updateCalled, updated,
                   destroyVars, lastCall>>

\* a continuation that runs and resolves nothing
PolygonReadyContinuation_NoResolve ==
    /\ continuation = "registered"
    /\ polygonsReadyPromise = "resolved"
    /\ continuation' = "ran"
    /\ UNCHANGED <<collectionVars, tileVars, constructorVars, content, polygonsReadyPromise,
                   updateCalled, updated, destroyVars, lastCall>>

\* function() { that._readyPromise.resolve(that); }
PolygonReadyContinuation ==
    /\ continuation = "registered"
    /\ polygonsReadyPromise = "resolved"
    /\ continuation' = "ran"
    /\ content' = [content EXCEPT !.readyPromise = resolve(@)]
    /\ UNCHANGED <<collectionVars, tileVars, constructorVars, polygonsReadyPromise, updateCalled, updated,
                   destroyVars, lastCall>>

\* destroy() is called on every owned object, allocated or not
destroyOwned_Unguarded(c, calls) == [n \in OwnedObjects |-> calls[n] + 1]

\* this._x = this._x && this._x.destroy(), for each owned object: the calls of
\* destroy() the owned objects have received
destroyOwned(c, calls) ==
    [n \in OwnedObjects |-> IF defined(c[n]) THEN calls[n] + 1 ELSE calls[n]]

\* Core/destroyObject: every method of the object throws from now on, but
\* isDestroyed, which returns true; the fields that are not functions stay
destroyObject(c) == [c EXCEPT !.isDestroyed = TRUE]

\* Vector3DTileContent.prototype.destroy
Destroy ==
    /\ phase = "constructed"
    /\ ~content.isDestroyed
    /\ destroyCalls' = destroyOwned(content, destroyCalls)
    /\ content' = destroyObject([content EXCEPT !.polygons = Undefined,
                                                !.polylines = Undefined,
                                                !.billboardCollection = Undefined,
                                                !.labelCollection = Undefined,
                                                !.polylineCollection = Undefined,
                                                !.batchTable = Undefined])
    /\ atDestroy' = Some([content |-> content', polygonsReadyPromise |-> polygonsReadyPromise])
    /\ lastCall' = Call("destroy", Undefined, "none", Undefined, << >>)
    /\ UNCHANGED <<collectionVars, tileVars, constructorVars, polygonsReadyPromise, continuation,
                   updateCalled, updated>>

\* array[index]: undefined beyond the end of the array
elementAt(array, index) ==
    IF index + 1 \in DOMAIN array THEN Some(array[index + 1]) ELSE Undefined

\* the batch ids getFeature is called with
BatchIdArguments == {Undefined} \cup { Some(b) : b \in -1..(MaxPrimitives + 1) }

\* Vector3DTileContent.prototype.getFeature.  this._features[batchId] throws a
\* TypeError when createFeatures has made no features.
GetFeature ==
    /\ phase = "constructed"
    /\ ~content.isDestroyed
    /\ \E batchId \in BatchIdArguments :
          IF batchIdIsInvalid(batchId, featuresLength(content))
          THEN /\ lastCall' = Call("getFeature", batchId, "DeveloperError", Undefined, << >>)
               /\ UNCHANGED content
          ELSE /\ content' = createFeatures(content)
               /\ lastCall' =
                      IF defined(content'.features)
                      THEN Call("getFeature", batchId, "none",
                                elementAt(content'.features.value, batchId.value), << >>)
                      ELSE Call("getFeature", batchId, "TypeError", Undefined, << >>)
    /\ UNCHANGED <<collectionVars, tileVars, constructorVars, polygonsReadyPromise, continuation,
                   updateCalled, updated, destroyVars>>

\* Vector3DTileContent.prototype.applyStyle.  content._features.length throws a
\* TypeError when createFeatures has made no features (featuresLength is 0).
ApplyStyle ==
    /\ phase = "constructed"
    /\ ~content.isDestroyed
    /\ \E style \in {Undefined} \cup { Some(st) : st \in Styles } :
          LET created == createFeatures(content)
          IN  IF ~defined(created.features)
              THEN /\ content' = created
                   /\ lastCall' = Call("applyStyle", style, "TypeError", Undefined, << >>)
              ELSE LET pass == stylePass(created.features.value, style)
                   IN  /\ content' = [created EXCEPT !.features = Some(pass.features)]
                       /\ lastCall' = Call("applyStyle", style, "none", Undefined, pass.log)
    /\ UNCHANGED <<collectionVars, tileVars, constructorVars, polygonsReadyPromise, continuation,
                   updateCalled, updated, destroyVars>>

Next ==
    \/ Construct
    \/ Update
    \/ PolygonsReady
    \/ PolygonReadyContinuation
    \/ Destroy

Spec == Init /\ [][Next]_vars

\* the decoder alone: the constructor over the tiles of InitWide
SpecDecode == InitWide /\ [][Construct]_vars

\* the decoder over the tiles whose section lengths vary
InitCursor == InitCursorTile /\ Unconstructed
SpecCursor == InitCursor /\ [][Construct]_vars

\* the decoder over the tiles whose point coordinates vary
InitPoints == InitPointsTile /\ Unconstructed
SpecPoints == InitPoints /\ [][Construct]_vars

\* features and styles: the constructor, getFeature() and applyStyle()
InitStyle == InitStyleTile /\ Unconstructed
NextStyle ==
    \/ Construct
    \/ GetFeature
    \/ ApplyStyle
SpecStyle == InitStyle /\ [][NextStyle]_vars

\* a call of a method of the collection
collectionCall(op, argument, out) ==
    /\ collection' = out.collection
    /\ lastCollectionCall' = Call(op, argument, out.error, out.result, out.raised)

\* what the methods of the collection are called with
ObjectArguments == {Undefined} \cup { Some(object) : object \in dynamicObjects }
IdArguments == {Undefined} \cup { Some(id) : id \in ObjectIds }

SuspendEvents ==
    /\ collection.suspectRefCount < MaxSuspend
    /\ collectionCall("suspendEvents", Undefined, suspendEvents(collection))
    /\ atSuspend' = IF collection.suspectRefCount = 0 THEN Some(collection.array)
                    ELSE atSuspend
    /\ UNCHANGED <<contentVars, dynamicObjects>>

ResumeEvents ==
    /\ collectionCall("resumeEvents", Undefined, resumeEvents(collection))
    /\ atSuspend' = IF collection'.suspectRefCount = 0 THEN Undefined ELSE atSuspend
    /\ UNCHANGED <<contentVars, dynamicObjects>>

Add ==
    /\ \E dynamicObject \in ObjectArguments :
           collectionCall("add", dynamicObject, add(collection, dynamicObject))
    /\ UNCHANGED <<contentVars, dynamicObjects, atSuspend>>

Remove ==
    /\ \E dynamicObject \in ObjectArguments :
           collectionCall("remove", dynamicObject, remove(collection, dynamicObject))
    /\ UNCHANGED <<contentVars, dynamicObjects, atSuspend>>

RemoveById ==
    /\ \E id \in IdArguments :
           collectionCall("removeById", id, removeById(collection, id))
    /\ UNCHANGED <<contentVars, dynamicObjects, atSuspend>>

RemoveAll ==
    /\ collectionCall("removeAll", Undefined, removeAll(collection))
    /\ UNCHANGED <<contentVars, dynamicObjects, atSuspend>>

\* the object getOrCreateObject returns joins the objects the caller holds
GetOrCreateObject ==
    /\ \E id \in IdArguments :
           LET out == getOrCreateObject(collection, id, Cardinality(dynamicObjects))
           IN  /\ collectionCall("getOrCreateObject", id, out)
               /\ dynamicObjects' = dynamicObjects \cup
                      (IF defined(out.result) THEN {out.result.value} ELSE {})
    /\ Cardinality(dynamicObjects') <= MaxObjects
    /\ UNCHANGED <<contentVars, atSuspend>>

\* Tiles with a good header, empty (byteLength 0) or not, with any primitive counts
\* within the bounds and nothing optional.
InitReadyTile ==
    /\ \E c \in PrimitiveCounts :
           encoded = Encoded(c[1], c[2], c[3], Undefined, Undefined, Undefined, Undefined,
                             FALSE, FALSE)
    /\ \E byteLength \in {0, 64} :
           arrayBuffer = Tile("vctr", 1, byteLength, 16, FeatureTableOf(encoded),
                              SectionsOf(encoded))

\* the life cycle when the tileset keeps calling update() on a content that is not
\* destroyed, the polygon set's readiness resolves in the end and the promise
\* library runs a continuation once its promise has resolved
InitReady == InitReadyTile /\ Unconstructed
SpecReady ==
    /\ InitReady
    /\ [][Next]_vars
    /\ WF_vars(Update)
    /\ WF_vars(PolygonsReady)
    /\ WF_vars(PolygonReadyContinuation)

\* the collection alone, beside a content that is never constructed
InitCollection ==
    /\ encoded = Encoded(0, 0, 0, Undefined, Undefined, Undefined, Undefined, FALSE, FALSE)
    /\ arrayBuffer = Tile("vctr", 1, 0, 0, FeatureTableOf(encoded), SectionsOf(encoded))
    /\ Unconstructed
NextCollection ==
    \/ SuspendEvents
    \/ ResumeEvents
    \/ Add
    \/ Remove
    \/ RemoveById
    \/ RemoveAll
    \/ GetOrCreateObject
SpecCollection == InitCollection /\ [][NextCollection]_vars

----------------------------------------------------------------------------
(* What the properties below speak of.                                     *)

\* the constructor has run (returned or thrown)
Constructed == phase # "new"

\* the content is in the caller's hands and not destroyed
Live == phase = "constructed" /\ ~content.isDestroyed

MagicAndVersionGood == arrayBuffer.magic = "vctr" /\ arrayBuffer.version = 1

\* the header lets initialize through to the feature table
HeaderGood ==
    /\ MagicAndVersionGood
    /\ arrayBuffer.byteLength > 0
    /\ arrayBuffer.featureTableJSONByteLength > 0

NoBatchTableNoPrimitives ==
    /\ ~defined(content.batchTable)
    /\ ~defined(content.polygons)
    /\ ~defined(content.polylines)
    /\ ~defined(content.billboardCollection)
    /\ ~defined(content.labelCollection)
    /\ ~defined(content.polylineCollection)
    /\ polygonsReadyPromise = "none"

NotResolved ==
    /\ content.readyPromise.state = "pending"
    /\ content.readyPromise.resolveCalls = 0
    /\ content.readyPromise.notified = 0

----------------------------------------------------------------------------
\* C1: a tile whose byteLength is 0 (magic and version good) is constructed without
\* an error, only magic, version and byteLength are read, the readiness signal is
\* resolved by the constructor itself (it is resolved in every state after it, also
\* before any update()), featuresLength is 0, and neither a batch table nor a
\* polygon set, polyline set or point collection exists.
C1_EmptyTileReadyAtConstruction ==
    (Constructed /\ MagicAndVersionGood /\ arrayBuffer.byteLength = 0) =>
        /\ phase = "constructed"
        /\ error = "none"
        /\ headerReads = << "magic", "version", "byteLength" >>
        /\ content.readyPromise.state = "resolved"
        /\ content.readyPromise.notified = 1
        /\ featuresLength(content) = 0
        /\ NoBatchTableNoPrimitives

C1_Witness ==
    /\ phase = "constructed"
    /\ arrayBuffer.byteLength = 0
    /\ ~updateCalled
    /\ content.readyPromise.state = "resolved"

\* C2: a tile whose magic is not "vctr" makes the constructor throw a DeveloperError
\* having read the magic alone; nothing is allocated and the readiness signal is
\* untouched.
C2_BadMagicThrowsBeforeAnything ==
    (Constructed /\ arrayBuffer.magic # "vctr") =>
        /\ phase = "threw"
        /\ error = "DeveloperError"
        /\ headerReads = << "magic" >>
        /\ NoBatchTableNoPrimitives
        /\ NotResolved
        /\ ~defined(content.features)

C2_Witness ==
    /\ phase = "threw"
    /\ arrayBuffer.magic = "xxxx"
    /\ arrayBuffer.version = 1
    /\ arrayBuffer.byteLength > 0

\* C3: with the magic good, every version but 1 makes the constructor throw a
\* DeveloperError right after the version is read, whatever byteLength is; with
\* version 1 initialize goes on and reads byteLength.
C3_OnlyVersion1 ==
    (Constructed /\ arrayBuffer.magic = "vctr") =>
        IF arrayBuffer.version # 1
        THEN /\ phase = "threw"
             /\ error = "DeveloperError"
             /\ headerReads = << "magic", "version" >>
             /\ NotResolved
        ELSE /\ Len(headerReads) >= 3
             /\ headerReads[3] = "byteLength"

C3_Witness ==
    /\ phase = "threw"
    /\ arrayBuffer.magic = "vctr"
    /\ arrayBuffer.version = 2
    /\ arrayBuffer.byteLength = 0

\* C4: with magic and version good, a featureTableJSONByteLength of 0 makes the
\* constructor throw a DeveloperError when byteLength > 0, with nothing allocated
\* and the readiness signal untouched, and is no error when byteLength is 0.
C4_ZeroFeatureTableLength ==
    (Constructed /\ MagicAndVersionGood /\ arrayBuffer.featureTableJSONByteLength = 0) =>
        IF arrayBuffer.byteLength > 0
        THEN /\ phase = "threw"
             /\ error = "DeveloperError"
             /\ NoBatchTableNoPrimitives
             /\ NotResolved
        ELSE /\ phase = "constructed"
             /\ error = "none"

C4_Witness ==
    /\ phase = "threw"
    /\ MagicAndVersionGood
    /\ arrayBuffer.byteLength > 0
    /\ arrayBuffer.featureTableJSONByteLength = 0

----------------------------------------------------------------------------
(* The batch ids the decoded instances carry.                              *)

\* the ids handed to the polygon set and to the polyline set (Undefined: none)
PolygonIds == IF defined(content.polygons) THEN content.polygons.value.batchIds ELSE Undefined
PolylineIds == IF defined(content.polylines) THEN content.polylines.value.batchIds ELSE Undefined

\* the ids the billboards of the points are tagged with
PointIds ==
    IF defined(content.billboardCollection)
    THEN [i \in 1..Len(content.billboardCollection.value) |->
            content.billboardCollection.value[i].batchIndex]
    ELSE << >>

\* every id some instance carries, polygons first
InstanceIds == ArrayOf(PolygonIds) \o ArrayOf(PolylineIds) \o PointIds

Distinct(ids) == Cardinality({ ids[i] : i \in 1..Len(ids) }) = Len(ids)

TotalEncoded == encoded.polygons + encoded.polylines + encoded.points

\* a type that has instances and brings its own ids
Supplies(numberOf, batchIds) == numberOf > 0 /\ defined(batchIds)

AnyExplicit ==
    \/ Supplies(encoded.polygons, encoded.polygonBatchIds)
    \/ Supplies(encoded.polylines, encoded.polylineBatchIds)
    \/ Supplies(encoded.points, encoded.pointBatchIds)

\* the ids the producer supplied for the types that have instances
SuppliedIds ==
    (IF encoded.polygons > 0 THEN ArrayOf(encoded.polygonBatchIds) ELSE << >>)
      \o (IF encoded.polylines > 0 THEN ArrayOf(encoded.polylineBatchIds) ELSE << >>)
      \o (IF encoded.points > 0 THEN ArrayOf(encoded.pointBatchIds) ELSE << >>)

\* ids k, k+1, ..., k+n-1
Counting(k, n) == [i \in 1..n |-> k + i - 1]

\* the ids of a type: none without instances, else the n ids from k on
IdsFrom(k, n) == IF n = 0 THEN Undefined ELSE Some(Counting(k, n))

SequentialFromZero ==
    /\ PolygonIds = IdsFrom(0, encoded.polygons)
    /\ PolylineIds = IdsFrom(encoded.polygons, encoded.polylines)
    /\ PointIds = Counting(encoded.polygons + encoded.polylines, encoded.points)
    /\ Distinct(InstanceIds)

----------------------------------------------------------------------------
C6_NoSynthesisBesideExplicitIds ==
    (Constructed /\ HeaderGood /\ AnyExplicit /\ ~content.isDestroyed) =>
        /\ encoded.polygons > 0 =>
              defined(content.polygons) /\ PolygonIds = encoded.polygonBatchIds
        /\ encoded.polylines > 0 =>
              defined(content.polylines) /\ PolylineIds = encoded.polylineBatchIds
        /\ encoded.points > 0 =>
              IF defined(encoded.pointBatchIds)
              THEN PointIds = encoded.pointBatchIds.value
              ELSE PointIds = << >>

\* polygons with explicit ids beside polylines without: the polylines get none
C6_Witness ==
    /\ Live
    /\ Supplies(encoded.polygons, encoded.polygonBatchIds)
    /\ encoded.polylines > 0
    /\ ~defined(encoded.polylineBatchIds)
    /\ defined(content.polylines)
    /\ PolylineIds = Undefined
    /\ PolygonIds = encoded.polygonBatchIds

C8_MissingOptionalFieldsNoError ==
    (Constructed /\ HeaderGood) =>
        /\ error = "none"
        /\ ~content.isDestroyed =>
              /\ encoded.polygons > 0 => defined(PolygonIds)
              /\ encoded.polylines > 0 => defined(PolylineIds)
              /\ Len(PointIds) = encoded.points

----------------------------------------------------------------------------
C10_PolygonsReadyAndUpdateBeforeReady ==
    (phase = "constructed" /\ polygonsReadyPromise # "none") =>
        (content.readyPromise.state = "resolved" =>
            updateCalled /\ polygonsReadyPromise = "resolved")

\* the polygon set is ready before the first update(): the content is not
C10_Witness ==
    /\ phase = "constructed"
    /\ polygonsReadyPromise = "resolved"
    /\ ~updateCalled
    /\ content.readyPromise.state = "pending"

----------------------------------------------------------------------------
(* destroy().                                                              *)

\* destroy() was called after update() had registered the continuation and before
\* the polygon set's readiness resolved
DestroyedAwaitingPolygons ==
    /\ defined(atDestroy)
    /\ atDestroy.value.content.polygonReadyPromise = Some("promise")
    /\ atDestroy.value.polygonsReadyPromise = "pending"

\* C11: when destroy() is called after update() registered the continuation and
\* before the polygon set's readiness resolves, destroy() does not throw, and
\* whatever happens later the content stays as destroy() left it: its readiness
\* signal unresolved, no field touched.
C11_ContinuationAfterDestroyDoesNothing ==
    DestroyedAwaitingPolygons =>
        /\ lastCall = Call("destroy", Undefined, "none", Undefined, << >>)
        /\ content.readyPromise.state = "pending"
        /\ content = atDestroy.value.content

\* the owned objects the constructor allocated
AllocatedObjects ==
    LET made == initialize(NewContent, arrayBuffer).content
    IN  { n \in OwnedObjects : defined(made[n]) }

\* C12: isDestroyed() is false until destroy() is called and true from then on;
\* destroy() does not throw, whatever the tile and whenever it is called, and calls
\* destroy() exactly once on each owned object the constructor allocated and on no
\* other; before it no owned object has been destroyed.
C12_DestroyReleasesWhatExistsOnce ==
    phase = "constructed" =>
        /\ content.isDestroyed <=> defined(atDestroy)
        /\ ~defined(atDestroy) => \A n \in OwnedObjects : destroyCalls[n] = 0
        /\ defined(atDestroy) =>
              /\ lastCall = Call("destroy", Undefined, "none", Undefined, << >>)
              /\ destroyCalls = [n \in OwnedObjects |->
                                    IF n \in AllocatedObjects THEN 1 ELSE 0]
              /\ \A n \in OwnedObjects : ~defined(content[n])

\* destroyed while awaiting the polygons: a polygon set and a batch table, no
\* polylines, no points
C12_Witness ==
    /\ DestroyedAwaitingPolygons
    /\ content.isDestroyed
    /\ polygonsReadyPromise = "pending"
    /\ destroyCalls = [n \in OwnedObjects |-> IF n \in {"polygons", "batchTable"} THEN 1 ELSE 0]

----------------------------------------------------------------------------
(* getFeature() and applyStyle().                                          *)

\* the batch id is undefined, negative or not below n
BadBatchId(batchId, n) == ~defined(batchId) \/ batchId.value < 0 \/ batchId.value >= n

\* C13: a getFeature(batchId) with batchId undefined, negative or >= featuresLength
\* throws a DeveloperError, returns no feature, and leaves the content as it was
\* (no facade is made); so does every getFeature on a content without features.
C13_GetFeatureOutOfRangeThrows ==
    [][ (lastCall'.op = "getFeature"
           /\ BadBatchId(lastCall'.argument, featuresLength(content))) =>
            /\ lastCall'.error = "DeveloperError"
            /\ ~defined(lastCall'.result)
            /\ content' = content ]_vars

\* getFeature(featuresLength) on a content with features none of which is made yet
C13_Witness ==
    /\ lastCall.op = "getFeature"
    /\ lastCall.error = "DeveloperError"
    /\ featuresLength(content) >= 1
    /\ lastCall.argument = Some(featuresLength(content))
    /\ ~defined(content.features)

\* the defaults of the style properties
StyleDefaults ==
    [ show |-> Constant(TRUE), color |-> Constant("WHITE"), pointSize |-> Constant(8),
      pointColor |-> Constant("WHITE"), pointOutlineColor |-> Constant("BLACK"),
      pointOutlineWidth |-> Constant(0), labelOutlineColor |-> Constant("WHITE"),
      labelOutlineWidth |-> Constant(1), backgroundEnabled |-> Constant(FALSE),
      heightOffset |-> Constant(0), anchorLineEnabled |-> Constant(FALSE),
      labelText |-> Undefined, image |-> Undefined, backgroundColor |-> Undefined,
      backgroundPadding |-> Undefined, scaleByDistance |-> Undefined,
      translucencyByDistance |-> Undefined, distanceDisplayCondition |-> Undefined ]

\* the last call was applyStyle and it returned
StyleApplied == lastCall.op = "applyStyle" /\ lastCall.error = "none"

\* C14: after applyStyle(frameState, undefined) on a content with at least one
\* feature there is a feature for every batch id 0..featuresLength-1 and each has
\* every style property at its default, whatever was applied before.
C14_NoStyleResetsToDefaults ==
    (lastCall.op = "applyStyle" /\ ~defined(lastCall.argument)
       /\ featuresLength(content) >= 1) =>
        /\ lastCall.error = "none"
        /\ defined(content.features)
        /\ Len(content.features.value) = featuresLength(content)
        /\ \A k \in 1..Len(content.features.value) :
              /\ content.features.value[k].batchId = k - 1
              /\ \A p \in DOMAIN StyleDefaults :
                    content.features.value[k][p] = StyleDefaults[p]

\* a reset after a style that defined every optional property (the misspelt
\* distanceDisplatCondition it wrote is still there)
C14_Witness ==
    /\ StyleApplied
    /\ ~defined(lastCall.argument)
    /\ Len(content.features.value) >= 2
    /\ content.features.value[1].distanceDisplatCondition # Undefined
    /\ content.features.value[2].backgroundColor = Undefined

\* C15: after applyStyle with a style, every feature holds, for each of
\* distanceDisplayCondition, scaleByDistance and translucencyByDistance the style
\* defines, the value the style evaluates for that feature.
C15_DistancePropertiesWritten ==
    (StyleApplied /\ defined(lastCall.argument)) =>
        \A k \in 1..Len(content.features.value) :
            LET style == lastCall.argument.value
                feature == content.features.value[k]
            IN  /\ defined(style.distanceDisplayCondition) =>
                      feature.distanceDisplayCondition =
                          DistanceDisplayCondition(Evaluated("distanceDisplayCondition", k - 1))
                /\ defined(style.scaleByDistance) =>
                      feature.scaleByDistance =
                          NearFarScalar(Evaluated("scaleByDistance", k - 1))
                /\ defined(style.translucencyByDistance) =>
                      feature.translucencyByDistance =
                          NearFarScalar(Evaluated("translucencyByDistance", k - 1))

\* where in the pass feature i's image is resolved
ImageResolutions(log, i) == { k \in 1..Len(log) : log[k] = <<i, "_setBillboardImage">> }

\* C16: in a pass of applyStyle, with or without a style, each feature's image is
\* resolved exactly once, after every write to that feature (there is one) and
\* before anything is done to a later feature.
C16_ImageResolvedOncePerFeature ==
    StyleApplied =>
        LET log == lastCall.log
            length == Len(content.features.value)
        IN  /\ \A k \in 1..Len(log) : log[k][1] \in 0..(length - 1)
            /\ \A i \in 0..(length - 1) :
                  /\ Cardinality(ImageResolutions(log, i)) = 1
                  /\ \A at \in ImageResolutions(log, i) :
                        /\ \E k \in 1..(at - 1) : log[k][1] = i
                        /\ \A k \in 1..Len(log) :
                              /\ log[k][1] = i => k <= at
                              /\ log[k][1] > i => k > at

\* a pass with a style over two features or more
C16_Witness ==
    /\ StyleApplied
    /\ defined(lastCall.argument)
    /\ Len(content.features.value) >= 2
    /\ Cardinality(ImageResolutions(lastCall.log, 1)) = 1

----------------------------------------------------------------------------
(* The layout of the tile and the points.                                  *)

\* the sections after the header, in the order of the format
SectionOrder ==
    << "featureTableJSON", "featureTableBinary", "batchTableJSON", "batchTableBinary",
       "indices", "polygonPositions", "polylinePositions", "pointPositions" >>

\* the byte length the header declares for the k-th section
DeclaredByteLength(k) ==
    << arrayBuffer.featureTableJSONByteLength, arrayBuffer.featureTableBinaryByteLength,
       arrayBuffer.batchTableJSONByteLength, arrayBuffer.batchTableBinaryByteLength,
       arrayBuffer.indicesByteLength, arrayBuffer.positionByteLength,
       arrayBuffer.polylinePositionByteLength, arrayBuffer.pointsPositionByteLength >>[k]

RECURSIVE DeclaredStart(_)
\* the header end plus the declared lengths of the sections before the k-th
DeclaredStart(k) ==
    IF k = 1 THEN Len(HeaderFields) * sizeOfUint32
    ELSE DeclaredStart(k - 1) + DeclaredByteLength(k - 1)

\* C17: whatever lengths the header declares and whatever the counts are, every
\* section initialize reads starts at the header end plus the declared lengths of
\* all sections before it in the order of the format.
C17_SectionsAtDeclaredOffsets ==
    (Constructed /\ HeaderGood) =>
        \A r \in 1..Len(sectionReads) :
            \A k \in 1..Len(SectionOrder) :
                sectionReads[r].section = SectionOrder[k] =>
                    sectionReads[r].byteOffset = DeclaredStart(k)

\* the quantized coordinates the decoded points were placed at
DecodedCoordinates ==
    LET billboards == ArrayOf(content.billboardCollection)
    IN  [ u |-> [i \in 1..Len(billboards) |-> billboards[i].position[1]],
          v |-> [i \in 1..Len(billboards) |-> billboards[i].position[2]],
          height |-> [i \in 1..Len(billboards) |-> billboards[i].position[3]] ]

\* C18: the points of a tile whose u, v and height arrays were zig-zag delta
\* encoded one after the other are placed at exactly the 16-bit coordinates that
\* were encoded, for every number of points, none included.
C18_ZigZagDeltaRoundTrip ==
    (phase = "constructed" /\ HeaderGood /\ ~content.isDestroyed) =>
        DecodedCoordinates = encoded.pointCoordinates

\* two points: u from the end of the range to 0, v from 0 to the middle, height
\* from the middle to the end
C18_Witness ==
    /\ phase = "constructed"
    /\ encoded.pointCoordinates =
           [u |-> <<65535, 0>>, v |-> <<0, 32768>>, height |-> <<32768, 65535>>]
    /\ arrayBuffer.pointPositions = <<1, 2, 0, 65535, 65535, 65534>>
    /\ DecodedCoordinates = encoded.pointCoordinates

\* the batch id of the i-th point: the one supplied, else the one counted on from
\* the polygons and polylines
BatchIdOfPoint(i) ==
    IF defined(encoded.pointBatchIds) THEN encoded.pointBatchIds.value[i]
    ELSE encoded.polygons + encoded.polylines + i - 1

\* C19: a tile with N > 0 points is decoded into three collections of N records
\* each, and the i-th billboard, label and anchor-line placeholder (a polyline of
\* length zero) each carry the batch id of the i-th point.
C19_ThreeRecordsPerPoint ==
    (Constructed /\ HeaderGood /\ encoded.points > 0 /\ ~content.isDestroyed) =>
        /\ defined(content.billboardCollection)
        /\ defined(content.labelCollection)
        /\ defined(content.polylineCollection)
        /\ Len(content.billboardCollection.value) = encoded.points
        /\ Len(content.labelCollection.value) = encoded.points
        /\ Len(content.polylineCollection.value) = encoded.points
        /\ \A i \in 1..encoded.points :
              /\ content.billboardCollection.value[i].batchIndex = BatchIdOfPoint(i)
              /\ content.labelCollection.value[i].batchIndex = BatchIdOfPoint(i)
              /\ content.polylineCollection.value[i].positions[1] =
                     content.polylineCollection.value[i].positions[2]
              /\ "batchIndex" \in DOMAIN content.polylineCollection.value[i]
              /\ content.polylineCollection.value[i].batchIndex = BatchIdOfPoint(i)

\* the tile with widths of 2 supplied where it has none
WithWidthsSupplied ==
    Tile(arrayBuffer.magic, arrayBuffer.version, arrayBuffer.byteLength,
         arrayBuffer.featureTableJSONByteLength,
         FeatureTableOf([encoded EXCEPT
                           !.polylineWidths = Some([i \in 1..encoded.polylines |-> 2])]),
         SectionsOf(encoded))

\* C20: a tile with polylines and no POLYLINE_WIDTHS gets a polyline set whose
\* widths are 2 for each of the POLYLINES_LENGTH polylines, and the constructor
\* ends as it does when the widths are supplied (their absence is no error); with
\* POLYLINE_WIDTHS the widths are the POLYLINES_LENGTH values the tile supplies.
C20_PolylineWidthsDefaultTo2 ==
    (Constructed /\ HeaderGood /\ encoded.polylines > 0 /\ ~content.isDestroyed) =>
        /\ defined(content.polylines)
        /\ Len(content.polylines.value.widths) = encoded.polylines
        /\ IF defined(encoded.polylineWidths)
           THEN content.polylines.value.widths = encoded.polylineWidths.value
           ELSE /\ \A i \in 1..encoded.polylines : content.polylines.value.widths[i] = 2
                /\ error = initialize(NewContent, WithWidthsSupplied).error

\* two polylines without widths beside a polygon
C20_Witness ==
    /\ phase = "constructed"
    /\ encoded.polylines = 2
    /\ encoded.polygons = 1
    /\ ~defined(encoded.polylineWidths)
    /\ content.polylines.value.widths = <<2, 2>>

----------------------------------------------------------------------------
(* DynamicObjectCollection: events, errors and contents.                   *)

\* the ids of the objects of an array
idsOf(array) == { array[k].id : k \in 1..Len(array) }

\* no object occurs twice in the array
NoDuplicates(array) == Cardinality(elementsOf(array)) = Len(array)

\* C21: while the suspend count is above 0, add, remove, removeById and removeAll
\* raise no event; suspendEvents adds one to the count and resumeEvents takes one
\* off; the resumeEvents that brings the count to 0 raises one event whose added
\* list is what is in the collection now and was not when events were suspended,
\* and whose removed list is what was in it then and is not now, and raises none
\* when the two contents are the same; a resumeEvents that leaves the count above
\* 0 raises none.
C21_SuspendedChangesRaiseOneEvent ==
    [][ LET call == lastCollectionCall'
            count == collection.suspectRefCount
        IN  /\ (count > 0 /\ call.op \in {"add", "remove", "removeById", "removeAll"})
                   => call.log = << >>
            /\ call.op = "suspendEvents"
                   => /\ collection'.suspectRefCount = count + 1
                      /\ call.log = << >>
            /\ (call.op = "resumeEvents" /\ call.error = "none")
                   => /\ collection'.suspectRefCount = count - 1
                      /\ IF count - 1 > 0
                         THEN call.log = << >>
                         ELSE LET before == elementsOf(atSuspend.value)
                                  now == elementsOf(collection'.array)
                              IN  IF before = now
                                  THEN call.log = << >>
                                  ELSE /\ Len(call.log) = 1
                                       /\ elementsOf(call.log[1].added) = now \ before
                                       /\ elementsOf(call.log[1].removed) = before \ now
                                       /\ NoDuplicates(call.log[1].added)
                                       /\ NoDuplicates(call.log[1].removed)
      ]_vars

\* the resumeEvents that took the count to 0 has raised one event that reports an
\* added and a removed object
C21_Witness ==
    /\ lastCollectionCall.op = "resumeEvents"
    /\ lastCollectionCall.error = "none"
    /\ collection.suspectRefCount = 0
    /\ Len(lastCollectionCall.log) = 1
    /\ Len(lastCollectionCall.log[1].added) > 0
    /\ Len(lastCollectionCall.log[1].removed) > 0

\* C22: resumeEvents called when the suspend count is 0 throws a DeveloperError
\* and leaves the count, the contents and the pending lists as they were and raises
\* no event; the suspend count is never negative.
C22_ResumeWithoutSuspendThrows ==
    /\ [](collection.suspectRefCount >= 0)
    /\ [][ (lastCollectionCall'.op = "resumeEvents" /\ collection.suspectRefCount = 0)
               => /\ lastCollectionCall'.error = "DeveloperError"
                  /\ lastCollectionCall'.log = << >>
                  /\ collection' = collection
         ]_vars

\* resumeEvents has thrown on a collection that holds an object
C22_Witness ==
    /\ lastCollectionCall.op = "resumeEvents"
    /\ lastCollectionCall.error = "DeveloperError"
    /\ collection.suspectRefCount = 0
    /\ Len(collection.array) > 0

\* C23: add throws a DeveloperError when its argument is undefined or an object
\* with the argument's id is in the collection, and then the contents, the pending
\* lists and the suspend count are as they were and no event is raised; otherwise,
\* whether or not the id was in the collection earlier, it returns and the object is
\* the last of the collection.
C23_AddThrowsOnUndefinedOrDuplicate ==
    [][ LET call == lastCollectionCall'
        IN  call.op = "add"
                => IF ~call.argument.defined
                      \/ call.argument.value.id \in idsOf(collection.array)
                   THEN /\ call.error = "DeveloperError"
                        /\ call.log = << >>
                        /\ collection' = collection
                   ELSE /\ call.error = "none"
                        /\ collection'.array = Append(collection.array, call.argument.value)
      ]_vars

\* add has thrown for an object whose id is in the collection
C23_Witness ==
    /\ lastCollectionCall.op = "add"
    /\ lastCollectionCall.error = "DeveloperError"
    /\ lastCollectionCall.argument.defined
    /\ lastCollectionCall.argument.value.id \in idsOf(collection.array)

\* the id removeById or remove was called with
RemovedId(call) ==
    IF call.op = "remove" THEN call.argument.value.id ELSE call.argument.value

\* the array without the objects of an id
Without(array, id) ==
    LET Other(object) == object.id # id
    IN  SelectSeq(array, Other)

\* C24: removeById(id), and remove(object) with the object's id, returns true
\* exactly when an object with that id is in the collection, and then the
\* collection is what it was without that one object; when it returns false the
\* contents, the pending lists and the suspend count are as they were and no event
\* is raised.
C24_RemoveByIdRemovesThatObjectOnly ==
    [][ LET call == lastCollectionCall'
        IN  (call.op \in {"removeById", "remove"} /\ call.error = "none")
                => LET id == RemovedId(call)
                   IN  IF id \in idsOf(collection.array)
                       THEN /\ call.result = Some(TRUE)
                            /\ collection'.array = Without(collection.array, id)
                            /\ Len(collection'.array) = Len(collection.array) - 1
                            /\ collection'.hash =
                                   [collection.hash EXCEPT ![id] = Undefined]
                       ELSE /\ call.result = Some(FALSE)
                            /\ call.log = << >>
                            /\ collection' = collection
      ]_vars

\* remove has returned true and left another object in the collection
C24_Witness ==
    /\ lastCollectionCall.op = "remove"
    /\ lastCollectionCall.error = "none"
    /\ lastCollectionCall.result = Some(TRUE)
    /\ Len(collection.array) > 0
    /\ lastCollectionCall.argument.value.id \notin idsOf(collection.array)

\* C25: after removeAll getObjects is empty and getById returns undefined for
\* every id.  Called with
\* the suspend count 0 it raises one event that reports every object of the
\* collection once as removed and none as added (no event if the collection was
\* empty); called while events are suspended it leaves as pending removed, once
\* each, the objects that were in the collection when events were suspended, and
\* nothing as pending added.
C25_RemoveAllReportsWhatWasThere ==
    [][ LET call == lastCollectionCall'
        IN  call.op = "removeAll"
                => /\ call.error = "none"
                   /\ getObjects(collection') = << >>
                   /\ \A id \in ObjectIds :
                          getById(collection', Some(id)).result = Undefined
                   /\ collection'.added = << >>
                   /\ IF collection.suspectRefCount = 0
                      THEN /\ collection'.removed = << >>
                           /\ IF collection.array = << >>
                              THEN call.log = << >>
                              ELSE /\ Len(call.log) = 1
                                   /\ call.log[1].added = << >>
                                   /\ elementsOf(call.log[1].removed)
                                          = elementsOf(collection.array)
                                   /\ NoDuplicates(call.log[1].removed)
                      ELSE /\ call.log = << >>
                           /\ elementsOf(collection'.removed) = elementsOf(atSuspend.value)
                           /\ NoDuplicates(collection'.removed)
      ]_vars

\* removeAll was called while events were suspended, on a collection that held an
\* object before the suspension and after an object was made by getOrCreateObject
\* that is not reported
C25_Witness ==
    /\ lastCollectionCall.op = "removeAll"
    /\ collection.suspectRefCount > 0
    /\ Len(collection.removed) > 0
    /\ \E object \in dynamicObjects :
           /\ object.instance > 0
           /\ object \notin elementsOf(atSuspend.value)
           /\ object \notin elementsOf(collection.removed)

\* the array and the id index hold the same objects, each under its own id
ArrayAndHashAgree ==
    /\ \A k \in 1..Len(getObjects(collection)) :
           getById(collection, Some(getObjects(collection)[k].id)).result
               = Some(getObjects(collection)[k])
    /\ \A id \in ObjectIds :
           LET found == getById(collection, Some(id)).result
           IN  found.defined => /\ found.value \in elementsOf(getObjects(collection))
                                /\ found.value.id = id
    /\ Cardinality(idsOf(getObjects(collection))) = Len(getObjects(collection))

\* C30: in every state the objects of getObjects() are the objects getById returns
\* for their ids and no id occurs twice in the array; getOrCreateObject(id) returns
\* the object of the collection that has the id and changes nothing, or, when there
\* is none, returns an object with that id that did not exist and is now the last of
\* the collection.
C30_ArrayAndIdIndexAgree ==
    /\ []ArrayAndHashAgree
    /\ [][ LET call == lastCollectionCall'
           IN  (call.op = "getOrCreateObject" /\ call.argument.defined)
                   => /\ call.error = "none"
                      /\ call.result.defined
                      /\ call.result.value.id = call.argument.value
                      /\ IF call.argument.value \in idsOf(collection.array)
                         THEN /\ call.result.value \in elementsOf(collection.array)
                              /\ collection' = collection
                              /\ call.log = << >>
                         ELSE /\ call.result.value \notin dynamicObjects
                              /\ collection'.array
                                     = Append(collection.array, call.result.value)
         ]_vars

\* getOrCreateObject has made a second object of an id whose first was removed,
\* beside an object of the other id
C30_Witness ==
    /\ lastCollectionCall.op = "getOrCreateObject"
    /\ lastCollectionCall.error = "none"
    /\ lastCollectionCall.result.value.instance > 0
    /\ Len(collection.array) = 2
    /\ collection.array[2] = lastCollectionCall.result.value
    /\ DynamicObject(lastCollectionCall.result.value.id, 0) \in elementsOf(collection.removed)

----------------------------------------------------------------------------
(* Readiness in the end, facades, styles after styles, styles without      *)
(* features.                                                               *)

\* the readiness signal is resolved
Ready == content.readyPromise.state = "resolved"

\* C26: a content that was constructed without an error is in the end Ready or
\* destroyed, when update() keeps being called and the polygon set's readiness
\* resolves in the end: whether byteLength is 0, the primitive counts are all 0,
\* there are only polylines and points, or there are polygons; and the first
\* update() of a content without a polygon set resolves the readiness signal itself.
C26_EveryLiveContentBecomesReady ==
    /\ (phase = "constructed") ~> (Ready \/ content.isDestroyed)
    /\ [][ (~updateCalled /\ updateCalled' /\ ~defined(content.polygons)) => Ready' ]_vars

\* a content with polygons is Ready: update() registered the continuation, the
\* polygon set became ready and the continuation ran
C26_Witness ==
    /\ phase = "constructed"
    /\ ~content.isDestroyed
    /\ encoded.polygons > 0
    /\ arrayBuffer.byteLength > 0
    /\ continuation = "ran"
    /\ Ready

\* the batch ids of the tile's points
PointBatchIds == { PointIds[i] : i \in 1..Len(PointIds) }

\* C27: once the facades are made, the facade of batch id b is bound to the
\* billboard, label and polyline collections exactly when b is the batch id of one
\* of the tile's points.
C27_OnlyPointFacadesArePointBacked ==
    (Live /\ defined(content.features)) =>
        \A b \in 0..(featuresLength(content) - 1) :
            content.features.value[b + 1].collections <=> b \in PointBatchIds

\* the facades of a content as createFeatures makes them, after a style pass
\* without a style (clearStyle)
ResetFeatures ==
    stylePass(createFeatures([content EXCEPT !.features = Undefined]).features.value,
              Undefined).features

\* the properties of a facade a style pass writes
StyleProperties ==
    { "show", "color", "pointSize", "pointColor", "pointOutlineColor", "pointOutlineWidth",
      "labelOutlineColor", "labelOutlineWidth", "font", "labelStyle", "labelText",
      "backgroundColor", "backgroundPadding", "backgroundEnabled", "scaleByDistance",
      "translucencyByDistance", "distanceDisplayCondition", "heightOffset",
      "anchorLineEnabled", "anchorLineColor", "image" }

\* C28: after applyStyle(frameState, style) every facade has, for every style
\* property, the value it has when the same style is applied to the reset content,
\* whatever was applied before.
C28_StyleDoesNotDependOnEarlierStyles ==
    [][ (lastCall'.op = "applyStyle" /\ lastCall'.error = "none" /\ lastCall'.argument.defined)
            => LET expected == stylePass(ResetFeatures, lastCall'.argument).features
               IN  \A k \in 1..Len(expected) : \A p \in StyleProperties :
                       content'.features.value[k][p] = expected[k][p]
      ]_vars

\* C29: applyStyle on a content whose featuresLength is 0 returns without an error
\* and writes nothing, with or without a style.
C29_ApplyStyleWithoutFeaturesIsNoError ==
    (lastCall.op = "applyStyle" /\ featuresLength(content) = 0) =>
        /\ lastCall.error = "none"
        /\ lastCall.log = << >>
        /\ ~defined(content.features)

----------------------------------------------------------------------------
(* DynamicObjectCollection: the pending lists.                             *)

\* C31: in every state, which is a state after a method of the collection has
\* returned or thrown: when the suspend count is 0 the pending added and removed
\* lists are empty; no object is in both pending lists; every object of the pending
\* added list is in the collection and no object of the pending removed list is;
\* and every event the last call raised reports an added or a removed object.
C31_PendingListsConsistent ==
    /\ collection.suspectRefCount = 0
           => (collection.added = << >> /\ collection.removed = << >>)
    /\ elementsOf(collection.added) \cap elementsOf(collection.removed) = {}
    /\ elementsOf(collection.added) \subseteq elementsOf(collection.array)
    /\ elementsOf(collection.removed) \cap elementsOf(collection.array) = {}
    /\ \A k \in 1..Len(lastCollectionCall.log) :
           Len(lastCollectionCall.log[k].added) + Len(lastCollectionCall.log[k].removed) > 0

\* while events are suspended an object made by getOrCreateObject is pending as
\* added, in the place of the object of the same id that is pending as removed
C31_Witness ==
    /\ collection.suspectRefCount > 0
    /\ \E object \in elementsOf(collection.added) :
           /\ object.instance > 0
           /\ DynamicObject(object.id, 0) \in elementsOf(collection.removed)

====
